---- MODULE Spec2Model ----
(***************************************************************************)
(* Finance tracker: primary-ledger CSV import, transaction store (reducer), *)
(* category edits, PayPal matcher and flow partition.                       *)
(*                                                                          *)
(* Conventions                                                              *)
(*   - a JS string is a sequence of character codes;                        *)
(*   - a nullable value is a sequence of length <= 1 (<<>> is null);        *)
(*   - money is an integer number of cents (amounts with two decimals);     *)
(*   - a calendar date is a day number, an instant is a number of hours     *)
(*     since the UTC midnight of day 0;                                     *)
(*   - matcher confidences are integer hundredths (0.6 is 60).              *)
(***************************************************************************)
EXTENDS Integers, Sequences, FiniteSets, TLC

\* ------------------------------------------------------------------ bounds
MaxRows == 2            \* rows per primary-ledger CSV
MaxTx == 2              \* stored transactions
MaxPayPalRows == 1      \* records per secondary CSV (application)
MaxBank == 2            \* bank list length (matcher)
MaxSecondary == 2       \* secondary list length (matcher)
MaxPartition == 2       \* transaction set size (flow partition)
NumRandomDraws == 2     \* distinct Math.random outcomes
MaxAnnotations == 1     \* PayPal annotations appended to one description
MaxParses == 2          \* parses of one CSV content (parser)
MaxUploads == 2         \* uploads of one CSV content (re-upload scenario)
MaxAnalysis == 3        \* transaction set size (calculations)
MaxFilter == 2          \* transaction set size (time filter)
MaxBackup == 2          \* transactions per backup file
MaxPending == 2         \* imports in flight at once
MaxAiTx == 3            \* transactions to analyse in one AI run
MaxBatchSize == 2       \* setBatchSize values

\* ----------------------------------------------------------------- strings
Str_Coles == <<67, 111, 108, 101, 115>>   \* "Coles"
Str_ColesPadded == <<32, 67, 111, 108, 101, 115, 32>>   \* " Coles "
Str_Salary == <<83, 97, 108, 97, 114, 121>>   \* "Salary"
Str_Adj == <<65, 100, 106>>   \* "Adj"
Str_PaypalColes == <<80, 65, 89, 80, 65, 76, 32, 42, 67, 79, 76, 69, 83>>   \* "PAYPAL *COLES"
Str_Empty == <<>>   \* ""
Type_ExpressCheckout == <<69, 120, 112, 114, 101, 115, 115, 32, 67, 104, 101, 99, 107, 111, 117, 116, 32, 80, 97, 121, 109, 101, 110, 116>>   \* "Express Checkout Payment"
Type_Refund == <<82, 101, 102, 117, 110, 100>>   \* "Refund"
Type_TransferToPayPal == <<84, 114, 97, 110, 115, 102, 101, 114, 32, 116, 111, 32, 80, 97, 121, 80, 97, 108, 32, 97, 99, 99, 111, 117, 110, 116>>   \* "Transfer to PayPal account"
Type_UserWithdrawal == <<85, 115, 101, 114, 32, 73, 110, 105, 116, 105, 97, 116, 101, 100, 32, 87, 105, 116, 104, 100, 114, 97, 119, 97, 108>>   \* "User Initiated Withdrawal"
Type_CurrencyConversion == <<71, 101, 110, 101, 114, 97, 108, 32, 67, 117, 114, 114, 101, 110, 99, 121, 32, 67, 111, 110, 118, 101, 114, 115, 105, 111, 110>>   \* "General Currency Conversion"
Kw_paypal == <<112, 97, 121, 112, 97, 108>>   \* "paypal"
Kw_alipay == <<97, 108, 105, 112, 97, 121>>   \* "alipay"
Kw_expressCheckout == <<101, 120, 112, 114, 101, 115, 115, 32, 99, 104, 101, 99, 107, 111, 117, 116>>   \* "express checkout"
Kw_payment == <<112, 97, 121, 109, 101, 110, 116>>   \* "payment"
Sep_PayPal == <<32, 124, 32, 80, 97, 121, 80, 97, 108, 58, 32>>   \* " | PayPal: "
Sep_Open == <<32, 40>>   \* " ("
Sep_Close == <<41>>   \* ")"

\* String.prototype.toLowerCase on the ASCII range
toLowerCase(s) == [i \in 1..Len(s) |-> IF s[i] >= 65 /\ s[i] <= 90 THEN s[i] + 32 ELSE s[i]]

\* String.prototype.includes: sub occurs in s as a contiguous run
includes(s, sub) ==
  \E k \in 0..Len(s) :
      /\ k + Len(sub) <= Len(s)
      /\ \A j \in 1..Len(sub) : s[k + j] = sub[j]

\* String.prototype.trim: drop leading and trailing blanks
RECURSIVE trimStart(_)
trimStart(s) == IF Len(s) > 0 /\ s[1] = 32 THEN trimStart(Tail(s)) ELSE s
RECURSIVE trimEnd(_)
trimEnd(s) == IF Len(s) > 0 /\ s[Len(s)] = 32 THEN trimEnd(SubSeq(s, 1, Len(s) - 1)) ELSE s
trim(s) == trimEnd(trimStart(s))

Abs(x) == IF x < 0 THEN 0 - x ELSE x

SeqsUpTo(S, n) == UNION {[1..k -> S] : k \in 0..n}
NonEmptySeqsUpTo(S, n) == UNION {[1..k -> S] : k \in 1..n}
Range(s) == {s[i] : i \in 1..Len(s)}

\* ------------------------------------------------------- runtime time zone
\* UTC offsets (hours) of the runtime: west of, at, and east of Greenwich
TZOffsets == {0 - 10, 0, 10}
\* The application's runs: a runtime at Greenwich and one east of it, where
\* the stored day differs from the day of the CSV
AppTZOffsets == {0, 10}

\* --------------------------------------------------------- canonical parser
Undefined == "<undefined>"     \* the absent category

Money_Minus23 == <<45, 50, 51, 46, 48, 48>>   \* -23.00
Money_Salary == <<36, 50, 44, 53, 48, 48, 46, 48, 48>>   \* $2,500.00
Money_Zero == <<48, 46, 48, 48>>   \* 0.00
Money_Garbage == <<97, 98, 99>>   \* abc
Money_Minus50 == <<34, 45, 53, 48, 46, 48, 48, 34>>   \* "-50.00"

\* Calendar: day 1 is 2025-01-01; the modelled years 2025..2027 have 365 days.
DaysBeforeMonth == <<0, 31, 59, 90, 120, 151, 181, 212, 243, 273, 304, 334>>

\* The calendar day of new Date(year, monthIndex, day), whose month index and
\* day may lie outside their ranges (Date carries them over).
DayNumber(year, monthIndex, day) ==
  LET y == year + ((monthIndex - (monthIndex % 12)) \div 12)
      m == monthIndex % 12
  IN (y - 2025) * 365 + DaysBeforeMonth[m + 1] + day

\* A date cell is <<day, month, year>> for a text that split('/') and parseInt
\* read as three numbers, or <<>> for a text that is no date at all.
\* new Date(y, m-1, d) is local midnight; toISOString() renders its UTC day,
\* the previous day when the runtime is east of Greenwich.
parseDate(dateString, tz) ==
  IF Len(dateString) # 3 THEN <<>>
  ELSE LET localDay == DayNumber(dateString[3], dateString[2] - 1, dateString[1])
       IN IF tz > 0 THEN <<localDay - 1>> ELSE <<localDay>>

IsDigit(ch) == ch >= 48 /\ ch <= 57

RECURSIVE TakeDigits(_)
TakeDigits(s) == IF Len(s) > 0 /\ IsDigit(s[1]) THEN <<s[1]>> \o TakeDigits(Tail(s)) ELSE <<>>

RECURSIVE DigitsValue(_)
DigitsValue(ds) == IF ds = <<>> THEN 0 ELSE DigitsValue(SubSeq(ds, 1, Len(ds) - 1)) * 10 + (ds[Len(ds)] - 48)

\* parseFloat on a text with at most two decimals, in cents; <<>> is NaN
parseFloatCents(s) ==
  LET signed == Len(s) > 0 /\ s[1] \in {43, 45}
      negative == Len(s) > 0 /\ s[1] = 45
      body == IF signed THEN Tail(s) ELSE s
      intDigits == TakeDigits(body)
      rest == SubSeq(body, Len(intDigits) + 1, Len(body))
      fracDigits == IF Len(rest) > 0 /\ rest[1] = 46 THEN TakeDigits(Tail(rest)) ELSE <<>>
      frac == (IF Len(fracDigits) >= 1 THEN (fracDigits[1] - 48) * 10 ELSE 0)
              + (IF Len(fracDigits) >= 2 THEN fracDigits[2] - 48 ELSE 0)
      magnitude == DigitsValue(intDigits) * 100 + frac
  IN IF intDigits = <<>> /\ fracDigits = <<>> THEN <<>>
     ELSE IF negative THEN <<0 - magnitude>> ELSE <<magnitude>>

\* moneyString.replace(/["'$,€£¥]/g, '').trim(), then parseFloat; NaN gives null
StrippedChars == {34, 39, 36, 44, 8364, 163, 165}
parseMoney(moneyString) ==
  LET Kept(ch) == ch \notin StrippedChars
  IN parseFloatCents(trim(SelectSeq(moneyString, Kept)))

RECURSIVE NatToDigits(_)
NatToDigits(n) == IF n < 10 THEN <<48 + n>> ELSE NatToDigits(n \div 10) \o <<48 + (n % 10)>>

\* money.toFixed(2) of an amount held in cents
toFixed2(money) ==
  (IF money < 0 THEN <<45>> ELSE <<>>)
    \o NatToDigits(Abs(money) \div 100) \o <<46>>
    \o <<48 + ((Abs(money) % 100) \div 10), 48 + (Abs(money) % 10)>>

\* simpleHash: the 32-bit digest is not computed; a digest stands for the
\* string it was taken from (no two strings of the model share a digest).
simpleHash(str) == str

\* parser module with content-derived ids:
\* `${simpleHash(`${date}|${money.toFixed(2)}|${description.trim()}`)}_${simpleHash(description.trim())}`
generateId(date, money, description) ==
  <<simpleHash(<<date, 124, toFixed2(money), 124, trim(description)>>), 95, simpleHash(trim(description))>>

\* parser module with Math.random().toString(36).substr(2, 9): the id is the draw
generateIdRandom(draw) == <<draw>>

ParserSources == {"hashed", "random"}

\* The first check of the row callback that throws, or "" when the row maps.
\* Date and money cells are non-empty texts; an empty description is the
\* missing field.
RowError(row, tz) ==
  IF row.description = <<>> THEN "Missing required fields"
  ELSE IF parseDate(row.date, tz) = <<>> THEN "Invalid date format"
  ELSE IF parseMoney(row.money) = <<>> THEN "Invalid money format"
  ELSE ""

\* The row callback with the income flag taken from money < 0
RowTransaction_IncomeWhenNegative(row, tz, source, draw) ==
  LET date == parseDate(row.date, tz)[1]
      money == parseMoney(row.money)[1]
  IN [id |-> IF source = "hashed" THEN generateId(date, money, trim(row.description))
             ELSE generateIdRandom(draw),
      date |-> date,
      money |-> money,
      description |-> trim(row.description),
      category |-> Undefined,
      isIncome |-> money < 0,
      paypalData |-> <<>>]

\* The object the row callback returns; draw is the row's Math.random outcome.
RowTransaction(row, tz, source, draw) ==
  LET date == parseDate(row.date, tz)[1]
      money == parseMoney(row.money)[1]
  IN [id |-> IF source = "hashed" THEN generateId(date, money, trim(row.description))
             ELSE generateIdRandom(draw),
      date |-> date,
      money |-> money,
      description |-> trim(row.description),
      category |-> Undefined,
      isIncome |-> money > 0,
      paypalData |-> <<>>]

\* parseCSV reporting the callback's 0-based index instead of index + 1
parseCSV_ZeroBasedRow(rows, tz, source, draws) ==
  LET failing == {i \in 1..Len(rows) : RowError(rows[i], tz) # ""}
  IN IF failing # {}
     THEN LET i == CHOOSE k \in failing : \A m \in failing : k <= m
          IN [ok |-> FALSE, row |-> i - 1, message |-> RowError(rows[i], tz), value |-> <<>>]
     ELSE [ok |-> TRUE, row |-> 0, message |-> "",
           value |-> LET NonZero(t) == t.money # 0
                     IN SelectSeq([i \in 1..Len(rows) |-> RowTransaction(rows[i], tz, source, draws[i])],
                                  NonZero)]

\* parseCSV without the trailing .filter(transaction => transaction.money !== 0)
parseCSV_KeepZero(rows, tz, source, draws) ==
  LET failing == {i \in 1..Len(rows) : RowError(rows[i], tz) # ""}
  IN IF failing # {}
     THEN LET i == CHOOSE k \in failing : \A m \in failing : k <= m
          IN [ok |-> FALSE, row |-> i, message |-> RowError(rows[i], tz), value |-> <<>>]
     ELSE [ok |-> TRUE, row |-> 0, message |-> "",
           value |-> [i \in 1..Len(rows) |-> RowTransaction(rows[i], tz, source, draws[i])]]

\* parseCSV: rejects on the first failing row (1-based), else resolves with the
\* mapped rows whose money is not zero.
parseCSV(rows, tz, source, draws) ==
  LET failing == {i \in 1..Len(rows) : RowError(rows[i], tz) # ""}
  IN IF failing # {}
     THEN LET i == CHOOSE k \in failing : \A m \in failing : k <= m
          IN [ok |-> FALSE, row |-> i, message |-> RowError(rows[i], tz), value |-> <<>>]
     ELSE [ok |-> TRUE, row |-> 0, message |-> "",
           value |-> LET NonZero(t) == t.money # 0
                     IN SelectSeq([i \in 1..Len(rows) |-> RowTransaction(rows[i], tz, source, draws[i])],
                                  NonZero)]

\* Primary-ledger rows the uploads draw from
Row_Coles == [date |-> <<27, 7, 2025>>, money |-> Money_Minus23, description |-> Str_ColesPadded]
Row_Salary == [date |-> <<28, 7, 2025>>, money |-> Money_Salary, description |-> Str_Salary]
Row_Zero == [date |-> <<27, 7, 2025>>, money |-> Money_Zero, description |-> Str_Adj]
Row_BadDate == [date |-> <<>>, money |-> Money_Minus23, description |-> Str_Coles]
Row_BadMoney == [date |-> <<27, 7, 2025>>, money |-> Money_Garbage, description |-> Str_Coles]
RawRows == {Row_Coles, Row_Salary, Row_Zero, Row_BadDate, Row_BadMoney}

\* CSV contents with at least one data row
Files == NonEmptySeqsUpTo(RawRows, MaxRows)

\* ------------------------------------------------------------------ matcher
Status_Completed == "Completed"
Status_Pending == "Pending"

\* parsePayPalDate: local midnight of the DD/MM/YYYY day, as an instant
parsePayPalDate(dateStr, tz) == DayNumber(dateStr[3], dateStr[2] - 1, dateStr[1]) * 24 - tz

\* new Date("YYYY-MM-DD"): UTC midnight of the stored day, as an instant
BankInstant(date) == date * 24

\* Magnitudes m (cents) for which the double difference |(m+1)/100 - m/100|
\* is <= 0.01; of the one-cent-apart magnitudes the model uses, 50.00/50.01
\* is within the tolerance and 23.00/23.01 (0.010000000000001563) is not.
OneCentWithinEpsilon == {5000}

\* Math.abs(Math.abs(a) - Math.abs(b)) <= 0.01 on doubles
AmountWithinEpsilon(a, b) ==
  LET lo == IF Abs(a) < Abs(b) THEN Abs(a) ELSE Abs(b)
      diff == Abs(Abs(a) - Abs(b))
  IN diff = 0 \/ (diff = 1 /\ lo \in OneCentWithinEpsilon)

\* daysDiff <= n, daysDiff being the instants' distance in days
DaysDiffWithin(bankTx, paypalTx, tz, n) ==
  Abs(BankInstant(bankTx.date) - parsePayPalDate(paypalTx.date, tz)) <= n * 24

NameMatch(bankTx, paypalTx) ==
  /\ toLowerCase(paypalTx.name) # <<>>
  /\ includes(toLowerCase(bankTx.description), toLowerCase(paypalTx.name))

commonKeywords == {Kw_paypal, Kw_alipay, Kw_expressCheckout, Kw_payment}

KeywordMatch(bankTx, paypalTx) ==
  \E keyword \in commonKeywords :
     \/ includes(toLowerCase(bankTx.description), keyword)
     \/ includes(toLowerCase(paypalTx.name), keyword)
     \/ includes(toLowerCase(paypalTx.type), keyword)

AmountWeight == 60
DateWeight == 40
NameWeight == 20
KeywordWeight == 10
MinConfidence == 80

calculateMatchConfidence(bankTx, paypalTx, tz) ==
  LET confidence ==
        (IF AmountWithinEpsilon(bankTx.money, paypalTx.total) THEN AmountWeight ELSE 0)
        + (IF DaysDiffWithin(bankTx, paypalTx, tz, 3) THEN DateWeight ELSE 0)
        + (IF NameMatch(bankTx, paypalTx) THEN NameWeight ELSE 0)
        + (IF KeywordMatch(bankTx, paypalTx) THEN KeywordWeight ELSE 0)
  IN IF confidence < 100 THEN confidence ELSE 100

getMatchReason(bankTx, paypalTx, tz) ==
  (IF Abs(bankTx.money) = Abs(paypalTx.total) THEN <<"Exact amount match">> ELSE <<>>)
  \o (IF DaysDiffWithin(bankTx, paypalTx, tz, 1) THEN <<"Same day transaction">>
      ELSE IF DaysDiffWithin(bankTx, paypalTx, tz, 3) THEN <<"Within 3 days">> ELSE <<>>)
  \o (IF NameMatch(bankTx, paypalTx) THEN <<"Name match in description">> ELSE <<>>)

IsExternal(t) ==
  /\ t.type # Type_TransferToPayPal
  /\ t.type # Type_UserWithdrawal
  /\ t.type # Type_CurrencyConversion

\* The promotion test with >= in place of >: the last best candidate wins
Promotes_LastWins(confidence, bestConfidence) ==
  confidence >= bestConfidence /\ confidence > MinConfidence

\* Whether a scanned candidate replaces the best match so far
Promotes(confidence, bestConfidence) ==
  confidence > bestConfidence /\ confidence > MinConfidence

\* The inner loop over the bank list: best is [match, confidence, reason]
RECURSIVE ScanBank(_, _, _, _)
ScanBank(bank, paypalTx, tz, best) ==
  IF bank = <<>> THEN best
  ELSE LET confidence == calculateMatchConfidence(Head(bank), paypalTx, tz)
       IN IF Promotes(confidence, best.confidence)
          THEN ScanBank(Tail(bank), paypalTx, tz,
                        [match |-> <<Head(bank)>>, confidence |-> confidence,
                         reason |-> getMatchReason(Head(bank), paypalTx, tz)])
          ELSE ScanBank(Tail(bank), paypalTx, tz, best)

RECURSIVE MatchEach(_, _, _)
MatchEach(bank, external, tz) ==
  IF external = <<>> THEN <<>>
  ELSE LET best == ScanBank(bank, Head(external), tz,
                            [match |-> <<>>, confidence |-> 0, reason |-> <<>>])
       IN (IF best.match # <<>>
           THEN <<[bankTransaction |-> best.match[1], paypalTransaction |-> Head(external),
                   confidence |-> best.confidence, reason |-> best.reason]>>
           ELSE <<>>)
          \o MatchEach(bank, Tail(external), tz)

matchPayPalTransactions(bankTransactions, paypalTransactions, tz) ==
  LET Kept(t) == IsExternal(t) /\ t.status = Status_Completed
  IN MatchEach(bankTransactions, SelectSeq(paypalTransactions, Kept), tz)

\* ------------------------------------------------------ application state
VARIABLES
  tz,               \* UTC offset of the runtime, hours
  parserSource,     \* which of the two parser modules '../utils/csvParser' is
  activeTab,        \* App: the tab whose components are mounted
  transactions,     \* AppState.transactions
  error,            \* AppState.error: [row, message], NoError when null
  uploadMode,       \* FileUpload: 'replace' | 'combine'
  matches,          \* PayPalAnalysis: proposed matches
  csvContent,       \* parser specification: the CSV content parsed twice
  parses,           \* parser specification: the results of the parses so far
  bankList,         \* matcher specification: bank transactions
  secondaryList,    \* matcher specification: secondary records
  matchOutput,      \* matcher specification: <<>> or <<result>>
  sample,           \* partition specification: the transaction set
  views,            \* partition specification: <<>> or <<[expense, income, investment]>>
  ledger,           \* analysis specification: the transactions analysed
  balance,          \* analysis specification: AppState.currentBalance, <<>> when null
  analysis,         \* analysis specification: the results computed so far
  period,           \* filter specification: the selected TimePeriod
  customRange,      \* filter specification: CustomDateRange [startDate, endDate]
  now,              \* filter specification: the instant of new Date(), hours
  listed,           \* filter specification: the transactions filtered
  filtered,         \* filter specification: <<>> or <<result>>
  pending,          \* imports in flight: what each captured when it started
  ai,               \* AI categorization run: position, cancel flag, requests sent
  categories,       \* AppState.categories (names)
  yearlySalary,     \* AppState.yearlySalary, <<>> when null
  persisted,        \* localStorage['money-analyzer-data']: <<>> or <<StoredData>>
  isInitialized     \* AppProvider: the load effect has run

vars == <<tz, parserSource, activeTab, transactions, error, uploadMode, matches,
          csvContent, parses, bankList, secondaryList, matchOutput, sample, views,
          ledger, balance, analysis, period, customRange, now, listed, filtered,
          pending, ai, categories, yearlySalary, persisted, isInitialized>>

appVars == <<activeTab, transactions, error, uploadMode, matches>>
parserVars == <<csvContent, parses>>
matcherVars == <<bankList, secondaryList, matchOutput>>
partitionVars == <<sample, views>>
analysisVars == <<ledger, balance, analysis>>
filterVars == <<period, customRange, now, listed, filtered>>
asyncVars == <<pending>>
aiVars == <<ai>>
storageVars == <<categories, yearlySalary, persisted, isInitialized>>

NoError == [row |-> 0, message |-> ""]
Err(message) == [row |-> 0, message |-> message]

\* initialState of the reducer
initialState == [transactions |-> <<>>, error |-> NoError]

Categories == {"Investment", "Income Offset"}

Ids(txs) == {txs[i].id : i \in 1..Len(txs)}

\* ------------------------------------------------------------------------ App
\* The tabs with a modelled operation ('analysis' only displays)
Tabs == {"upload", "transactions", "ai", "data"}

\* setActiveTab: the components of the tab left are unmounted and lose their
\* state, those of the tab entered start from their initial state
SetActiveTab(tab) ==
  /\ tab # activeTab
  /\ activeTab' = tab
  /\ uploadMode' = "combine"
  /\ matches' = <<>>
  /\ UNCHANGED <<tz, parserSource, transactions, error>>
  /\ UNCHANGED <<parserVars, matcherVars, partitionVars, analysisVars, filterVars, asyncVars, aiVars, storageVars>>

\* ---------------------------------------------------------------- appReducer
SET_TRANSACTIONS(payload) == payload

UPDATE_TRANSACTION(txs, payload) ==
  [i \in 1..Len(txs) |-> IF txs[i].id = payload.id THEN payload ELSE txs[i]]

DELETE_TRANSACTION(txs, id) ==
  LET Other(t) == t.id # id IN SelectSeq(txs, Other)

\* Array.prototype.find(t => t.id === id): <<>> when undefined
find(txs, id) ==
  LET hits == {i \in 1..Len(txs) : txs[i].id = id}
  IN IF hits = {} THEN <<>> ELSE <<txs[CHOOSE i \in hits : \A j \in hits : i <= j]>>

\* ----------------------------------------------------------------- FileUpload
\* Math.random outcomes of one parse: n draws, none of which repeats an id
\* that is in use
RandomDraws == 1..NumRandomDraws
UnusedDraws(used) == {d \in RandomDraws : generateIdRandom(d) \notin used}
RECURSIVE FreshDraws(_, _, _)
FreshDraws(used, n, from) ==
  IF n = 0 THEN <<>>
  ELSE IF generateIdRandom(from) \in used THEN FreshDraws(used, n, from + 1)
       ELSE <<from>> \o FreshDraws(used, n - 1, from + 1)

\* The ids in use when a file is parsed: those of the proposed matches and,
\* when the stored list is kept (combine), those of the stored transactions
UsedIds(mode) ==
  {matches[i].bankTransaction.id : i \in 1..Len(matches)}
    \cup (IF mode = "combine" THEN Ids(transactions) ELSE {})

SetUploadMode(mode) ==
  /\ activeTab \in {"upload", "data"}
  /\ uploadMode # mode
  /\ uploadMode' = mode
  /\ UNCHANGED <<tz, parserSource, activeTab, transactions, error, matches>>
  /\ UNCHANGED <<parserVars, matcherVars, partitionVars, analysisVars, filterVars, asyncVars, aiVars, storageVars>>

\* The combine branch appending every parsed transaction
NewTransactions_All(parsed, existing) == parsed

\* The combine branch: the parsed transactions whose id the stored list lacks
NewTransactions(parsed, existing) ==
  LET IsNew(t) == t.id \notin Ids(existing) IN SelectSeq(parsed, IsNew)

\* What handleFileUpload leaves in [transactions, error] for a parse result
UploadOutcome(result, mode, existing, previousError) ==
  LET newTransactions == NewTransactions(result.value, existing)
  IN IF ~result.ok
     THEN [transactions |-> existing,
           error |-> [row |-> result.row, message |-> result.message]]
     ELSE IF Len(result.value) = 0
     THEN [transactions |-> existing,
           error |-> Err("No valid transactions found in the CSV file")]
     ELSE IF mode = "replace"
     THEN [transactions |-> SET_TRANSACTIONS(result.value), error |-> NoError]
     ELSE IF Len(newTransactions) = 0
     THEN [transactions |-> existing,
           error |-> Err("No new transactions found. All transactions already exist.")]
     ELSE [transactions |-> SET_TRANSACTIONS(existing \o newTransactions), error |-> NoError]

\* FileUpload.handleFileUpload for a file whose name ends in .csv
HandleFileUpload(file) ==
  LET result == parseCSV(file, tz, parserSource,
                         FreshDraws(UsedIds(uploadMode), Len(file), 1))
      outcome == UploadOutcome(result, uploadMode, transactions, error)
  IN /\ activeTab = "upload"
     /\ parserSource = "random" => Cardinality(UnusedDraws(UsedIds(uploadMode))) >= Len(file)
     /\ Len(outcome.transactions) <= MaxTx
     /\ transactions' = outcome.transactions
     /\ error' = outcome.error
     /\ UNCHANGED <<tz, parserSource, activeTab, uploadMode, matches>>
     /\ UNCHANGED <<matcherVars, partitionVars, analysisVars, filterVars, asyncVars, aiVars, storageVars>>

\* An upload of some CSV file
UploadFile(file) == HandleFileUpload(file) /\ UNCHANGED parserVars

\* FileUpload.handleFileUpload for any other file: the early return
HandleFileUploadNotCsv ==
  /\ activeTab = "upload"
  /\ error' = Err("Please upload a CSV file")
  /\ UNCHANGED <<tz, parserSource, activeTab, transactions, uploadMode, matches>>
  /\ UNCHANGED <<parserVars, matcherVars, partitionVars, analysisVars, filterVars, asyncVars, aiVars, storageVars>>

\* ------------------------------------------------------------ category edits
\* TransactionList.handleSaveCategory
HandleSaveCategory(transactionId, editingCategory) ==
  /\ activeTab = "transactions"
  /\ find(transactions, transactionId) # <<>>
  /\ transactions' = UPDATE_TRANSACTION(transactions,
         [find(transactions, transactionId)[1] EXCEPT !.category = editingCategory])
  /\ UNCHANGED <<tz, parserSource, activeTab, error, uploadMode, matches>>
  /\ UNCHANGED <<parserVars, matcherVars, partitionVars, analysisVars, filterVars, asyncVars, aiVars, storageVars>>

\* AutoCategorization.applySuggestion
ApplySuggestion(transactionId, category) ==
  /\ activeTab = "ai"
  /\ find(transactions, transactionId) # <<>>
  /\ transactions' = UPDATE_TRANSACTION(transactions,
         [find(transactions, transactionId)[1] EXCEPT !.category = category])
  /\ UNCHANGED <<tz, parserSource, activeTab, error, uploadMode, matches>>
  /\ UNCHANGED <<parserVars, matcherVars, partitionVars, analysisVars, filterVars, asyncVars, aiVars, storageVars>>

\* ManualCategorization (mounted by no tab of App; wherever it is mounted):
\* the remove-category button of a listed transaction
RemoveCategory(i) ==
  /\ i \in 1..Len(transactions)
  /\ transactions[i].category # Undefined
  /\ transactions' = UPDATE_TRANSACTION(transactions,
         [transactions[i] EXCEPT !.category = Undefined])
  /\ UNCHANGED <<tz, parserSource, activeTab, error, uploadMode, matches>>
  /\ UNCHANGED <<parserVars, matcherVars, partitionVars, analysisVars, filterVars, asyncVars, aiVars, storageVars>>

\* -------------------------------------------------------------- PayPalAnalysis
PP_Coles == [date |-> <<27, 7, 2025>>, name |-> Str_Coles, type |-> Type_ExpressCheckout,
             status |-> Status_Completed, total |-> 0 - 2300, transactionId |-> "PP-1"]
PP_ColesAgain == [date |-> <<29, 7, 2025>>, name |-> Str_Coles, type |-> Type_Refund,
                  status |-> Status_Completed, total |-> 0 - 2300, transactionId |-> "PP-2"]
PP_Transfer == [date |-> <<27, 7, 2025>>, name |-> Str_Empty, type |-> Type_TransferToPayPal,
                status |-> Status_Completed, total |-> 0 - 2300, transactionId |-> "PP-3"]
PP_Pending == [date |-> <<27, 7, 2025>>, name |-> Str_Coles, type |-> Type_ExpressCheckout,
               status |-> Status_Pending, total |-> 0 - 2300, transactionId |-> "PP-4"]
PayPalRows == {PP_Coles, PP_Transfer}
PayPalFiles == NonEmptySeqsUpTo(PayPalRows, MaxPayPalRows)

\* PayPalAnalysis.handleFileUpload
PayPalHandleFileUpload(parsed) ==
  /\ activeTab = "transactions"
  /\ LET filteredTransactions == SelectSeq(parsed, IsExternal)
     IN IF Len(transactions) > 0
        THEN matches' = matchPayPalTransactions(transactions, filteredTransactions, tz)
        ELSE UNCHANGED matches
  /\ UNCHANGED <<tz, parserSource, activeTab, transactions, error, uploadMode>>
  /\ UNCHANGED <<parserVars, matcherVars, partitionVars, analysisVars, filterVars, asyncVars, aiVars, storageVars>>

\* The transaction applyPayPalData dispatches for a match
updatedTransaction(match) ==
  [match.bankTransaction EXCEPT
     !.description = match.bankTransaction.description \o Sep_PayPal
                       \o match.paypalTransaction.name \o Sep_Open
                       \o match.paypalTransaction.type \o Sep_Close,
     !.paypalData = <<[name |-> match.paypalTransaction.name,
                       type |-> match.paypalTransaction.type,
                       transactionId |-> match.paypalTransaction.transactionId,
                       confidence |-> match.confidence,
                       reason |-> match.reason]>>]

\* The number of PayPal annotations a description carries
Annotations(description) ==
  Cardinality({k \in 0..Len(description) :
                 /\ k + Len(Sep_PayPal) <= Len(description)
                 /\ SubSeq(description, k + 1, k + Len(Sep_PayPal)) = Sep_PayPal})

\* PayPalAnalysis.applyPayPalData ('Apply to Transaction' of match k)
ApplyPayPalData(k) ==
  /\ activeTab = "transactions"
  /\ k \in 1..Len(matches)
  /\ Annotations(updatedTransaction(matches[k]).description) <= MaxAnnotations
  /\ transactions' = UPDATE_TRANSACTION(transactions, updatedTransaction(matches[k]))
  /\ UNCHANGED <<tz, parserSource, activeTab, error, uploadMode, matches>>
  /\ UNCHANGED <<parserVars, matcherVars, partitionVars, analysisVars, filterVars, asyncVars, aiVars, storageVars>>

RECURSIVE ApplyEach(_, _)
ApplyEach(txs, ms) ==
  IF ms = <<>> THEN txs
  ELSE ApplyEach(UPDATE_TRANSACTION(txs, updatedTransaction(Head(ms))), Tail(ms))

\* PayPalAnalysis.applyAllPayPalData ('Apply All Matches')
ApplyAllPayPalData ==
  /\ activeTab = "transactions"
  /\ Len(matches) > 0
  /\ \A k \in 1..Len(matches) :
        Annotations(updatedTransaction(matches[k]).description) <= MaxAnnotations
  /\ transactions' = ApplyEach(transactions, matches)
  /\ matches' = <<>>
  /\ UNCHANGED <<tz, parserSource, activeTab, error, uploadMode>>
  /\ UNCHANGED <<parserVars, matcherVars, partitionVars, analysisVars, filterVars, asyncVars, aiVars, storageVars>>

\* --------------------------------------------------------- deletion and reset
\* dispatch(appActions.deleteTransaction(id)), from anywhere
DeleteTransaction(id) ==
  /\ id \in Ids(transactions)
  /\ transactions' = DELETE_TRANSACTION(transactions, id)
  /\ UNCHANGED <<tz, parserSource, activeTab, error, uploadMode, matches>>
  /\ UNCHANGED <<parserVars, matcherVars, partitionVars, analysisVars, filterVars, asyncVars, aiVars, storageVars>>

\* dispatch(appActions.resetState()): DataManagement.clearAllData, 'Clear data'
ResetState ==
  /\ activeTab = "data"
  /\ transactions' = initialState.transactions
  /\ error' = initialState.error
  /\ UNCHANGED <<tz, parserSource, activeTab, uploadMode, matches>>
  /\ UNCHANGED <<parserVars, matcherVars, partitionVars, analysisVars, filterVars, asyncVars, aiVars, storageVars>>

\* ------------------------------------------------------------ backup restore
\* Backup files: the transactions of a store exported by createBackup at
\* offset 0, after the user categorised the Coles row
Backup_Coles ==
  [RowTransaction(Row_Coles, 0, "hashed", 1) EXCEPT !.category = "Investment"]
Backup_Salary == RowTransaction(Row_Salary, 0, "hashed", 1)
BackupFiles ==
  {[transactions |-> txs] : txs \in SeqsUpTo({Backup_Coles, Backup_Salary}, MaxBackup)}

\* The transactions restoreBackup dispatches with setTransactions
RestoredTransactions(backupData, mode, existing) ==
  IF mode = "replace" THEN backupData.transactions
  ELSE LET IsNew(t) == t.id \notin Ids(existing)
           newTransactions == SelectSeq(backupData.transactions, IsNew)
       IN existing \o newTransactions

\* DataManagement.restoreBackup, the onload callback on a backup that parses
RestoreBackup(backupData) ==
  /\ activeTab = "data"
  /\ Len(RestoredTransactions(backupData, uploadMode, transactions)) <= MaxTx
  /\ transactions' =
       SET_TRANSACTIONS(RestoredTransactions(backupData, uploadMode, transactions))
  /\ UNCHANGED <<tz, parserSource, activeTab, error, uploadMode, matches>>
  /\ UNCHANGED <<parserVars, matcherVars, partitionVars, analysisVars, filterVars, asyncVars, aiVars, storageVars>>

IdleParser == csvContent = <<>> /\ parses = <<>>
IdleMatcher == bankList = <<>> /\ secondaryList = <<>> /\ matchOutput = <<>>
IdlePartition == sample = <<>> /\ views = <<>>
NoAnalysis == [result |-> <<>>, balanceTrend |-> <<>>, trend |-> <<>>, spending |-> <<>>]
IdleAnalysis == ledger = <<>> /\ balance = <<>> /\ analysis = NoAnalysis
IdleFilter ==
  /\ period = "all"
  /\ customRange = [startDate |-> <<>>, endDate |-> <<>>]
  /\ now = 0
  /\ listed = <<>>
  /\ filtered = <<>>

IdleAi ==
  ai = [pc |-> "idle", total |-> 0, size |-> 1, key |-> FALSE, i |-> 0, k |-> 0,
        cancel |-> FALSE, signalled |-> FALSE, requests |-> 0]
IdleStorage ==
  /\ categories = {}
  /\ yearlySalary = <<>>
  /\ persisted = <<>>
  /\ isInitialized = FALSE
IdleRest == pending = {} /\ IdleAi /\ IdleStorage

Init ==
  /\ tz \in AppTZOffsets
  /\ parserSource \in ParserSources
  /\ activeTab = "upload"
  /\ transactions = initialState.transactions
  /\ error = initialState.error
  /\ uploadMode = "combine"
  /\ matches = <<>>
  /\ IdleParser /\ IdleMatcher /\ IdlePartition /\ IdleAnalysis /\ IdleFilter /\ IdleRest

Next ==
  \/ \E tab \in Tabs : SetActiveTab(tab)
  \/ \E mode \in {"replace", "combine"} : SetUploadMode(mode)
  \/ \E file \in Files : UploadFile(file)
  \/ HandleFileUploadNotCsv
  \/ \E id \in Ids(transactions), c \in Categories : HandleSaveCategory(id, c)
  \/ \E id \in Ids(transactions), c \in Categories : ApplySuggestion(id, c)
  \/ \E i \in 1..Len(transactions) : RemoveCategory(i)
  \/ \E parsed \in PayPalFiles : PayPalHandleFileUpload(parsed)
  \/ \E k \in 1..Len(matches) : ApplyPayPalData(k)
  \/ ApplyAllPayPalData
  \/ \E id \in Ids(transactions) : DeleteTransaction(id)
  \/ ResetState

Spec == Init /\ [][Next]_vars

\* ------------------------------------------------------ imports and restores
\* The application restricted to the two import paths and to clearing
NextImport ==
  \/ \E tab \in Tabs : SetActiveTab(tab)
  \/ \E mode \in {"replace", "combine"} : SetUploadMode(mode)
  \/ \E file \in Files : UploadFile(file)
  \/ HandleFileUploadNotCsv
  \/ \E backupData \in BackupFiles : RestoreBackup(backupData)
  \/ ResetState

SpecImport == Init /\ [][NextImport]_vars

\* ---------------------------------------------------------- imports in flight
\* handleFileUpload awaits parseCSV and restoreBackup waits for reader.onload:
\* the code after the wait reads uploadMode and state.transactions from the
\* closure of the render in which the import started

\* handleFileUpload up to `await parseCSV(file)`; the drop zone takes a file
\* whatever uploadStatus is
StartUpload(file) ==
  /\ activeTab = "upload"
  /\ Cardinality(pending) < MaxPending
  /\ pending' = pending \cup {[kind |-> "csv", mode |-> uploadMode,
                               captured |-> transactions, content |-> file]}
  /\ UNCHANGED <<tz, parserSource, activeTab>>
  /\ UNCHANGED <<appVars, parserVars, matcherVars, partitionVars, analysisVars,
                 filterVars, aiVars, storageVars>>

\* handleFileUpload after the await; dispatch outlives the component
CompleteUpload(import) ==
  LET result == parseCSV(import.content, tz, parserSource,
                         FreshDraws({}, Len(import.content), 1))
      outcome == UploadOutcome(result, import.mode, import.captured, error)
  IN /\ import \in pending
     /\ import.kind = "csv"
     /\ Len(outcome.transactions) <= MaxTx
     /\ transactions' = IF outcome.error = NoError THEN outcome.transactions
                        ELSE transactions
     /\ error' = outcome.error
     /\ pending' = pending \ {import}
     /\ UNCHANGED <<tz, parserSource, activeTab, uploadMode, matches>>
     /\ UNCHANGED <<parserVars, matcherVars, partitionVars, analysisVars,
                    filterVars, aiVars, storageVars>>

\* restoreBackup up to reader.readAsText(file)
StartRestore(backupData) ==
  /\ activeTab = "data"
  /\ Cardinality(pending) < MaxPending
  /\ pending' = pending \cup {[kind |-> "json", mode |-> uploadMode,
                               captured |-> transactions, content |-> backupData]}
  /\ UNCHANGED <<tz, parserSource, activeTab>>
  /\ UNCHANGED <<appVars, parserVars, matcherVars, partitionVars, analysisVars,
                 filterVars, aiVars, storageVars>>

\* reader.onload of restoreBackup
CompleteRestore(import) ==
  /\ import \in pending
  /\ import.kind = "json"
  /\ Len(RestoredTransactions(import.content, import.mode, import.captured)) <= MaxTx
  /\ transactions' =
       SET_TRANSACTIONS(RestoredTransactions(import.content, import.mode, import.captured))
  /\ error' = NoError
  /\ pending' = pending \ {import}
  /\ UNCHANGED <<tz, parserSource, activeTab, uploadMode, matches>>
  /\ UNCHANGED <<parserVars, matcherVars, partitionVars, analysisVars,
                 filterVars, aiVars, storageVars>>

\* Combine-mode imports, each in two steps, and category edits; the files
\* are one-row CSVs and one-transaction backups
AsyncFiles == {<<Row_Coles>>, <<Row_Salary>>}
AsyncBackups == {[transactions |-> <<Backup_Coles>>], [transactions |-> <<Backup_Salary>>]}

InitAsync == Init /\ tz = 0 /\ parserSource = "hashed"

NextAsync ==
  \/ \E tab \in Tabs : SetActiveTab(tab)
  \/ \E file \in AsyncFiles : StartUpload(file)
  \/ \E import \in pending : CompleteUpload(import)
  \/ \E backupData \in AsyncBackups : StartRestore(backupData)
  \/ \E import \in pending : CompleteRestore(import)
  \/ \E id \in Ids(transactions), c \in {"Investment"} : HandleSaveCategory(id, c)
  \/ \E id \in Ids(transactions), c \in {"Investment"} : ApplySuggestion(id, c)

SpecAsync == InitAsync /\ [][NextAsync]_vars

\* ---------------------------------------------------------------- persistence
\* AppProvider keeps a snapshot of the state in localStorage: the load effect
\* runs once on application start, the save effect after every state change
CURRENT_VERSION == "1.0.0"

\* getDefaultCategories(), by name (two of the default names)
getDefaultCategories == {"Groceries", "Other"}

\* v || null for a number or null
OrNull(v) == IF v = <<>> \/ v[1] = 0 THEN <<>> ELSE v

\* storage.saveData: the stored document
saveData(txs, cats, currentBalance, salary) ==
  <<[transactions |-> txs, categories |-> cats,
     currentBalance |-> OrNull(currentBalance), yearlySalary |-> OrNull(salary),
     version |-> CURRENT_VERSION]>>

\* storage.loadData: <<>> when null
loadData(stored) ==
  IF stored = <<>> THEN <<>>
  ELSE IF stored[1].version # CURRENT_VERSION THEN <<>>
  ELSE <<[transactions |-> stored[1].transactions, categories |-> stored[1].categories,
          currentBalance |-> OrNull(stored[1].currentBalance),
          yearlySalary |-> OrNull(stored[1].yearlySalary)]>>

\* storage.clearData
clearData == <<>>

\* The save effect of AppProvider on the state (txs, cats, b, s): what
\* localStorage holds afterwards
SaveEffect(initialized, txs, cats, b, s, stored) ==
  IF initialized /\ (Len(txs) > 0 \/ cats # {} \/ b # <<>> \/ s # <<>>)
  THEN saveData(txs, cats, b, s)
  ELSE stored

PersistFrame ==
  /\ UNCHANGED <<tz, parserSource, ledger, analysis>>
  /\ UNCHANGED <<parserVars, matcherVars, partitionVars, filterVars, asyncVars, aiVars>>

\* Application start (first mount or reload): the reducer starts from
\* initialState, the load effect dispatches what storage.loadData returns,
\* then the save effect runs on the loaded state
AppStart ==
  LET savedData == loadData(persisted)
      txs == IF savedData # <<>> THEN SET_TRANSACTIONS(savedData[1].transactions)
             ELSE initialState.transactions
      cats == IF savedData # <<>> THEN savedData[1].categories ELSE getDefaultCategories
      b == IF savedData # <<>> THEN savedData[1].currentBalance ELSE <<>>
      s == IF savedData # <<>> THEN savedData[1].yearlySalary ELSE <<>>
  IN /\ activeTab' = "upload"
     /\ uploadMode' = "combine"
     /\ matches' = <<>>
     /\ error' = initialState.error
     /\ transactions' = txs
     /\ categories' = cats
     /\ balance' = b
     /\ yearlySalary' = s
     /\ isInitialized' = TRUE
     /\ persisted' = SaveEffect(TRUE, txs, cats, b, s, persisted)
     /\ PersistFrame

\* FileUpload.handleFileUpload, then the save effect
PersistUpload(file) ==
  LET result == parseCSV(file, tz, parserSource, FreshDraws({}, Len(file), 1))
      outcome == UploadOutcome(result, uploadMode, transactions, error)
  IN /\ isInitialized
     /\ activeTab = "upload"
     /\ Len(outcome.transactions) <= MaxTx
     /\ transactions' = outcome.transactions
     /\ error' = outcome.error
     /\ persisted' = SaveEffect(isInitialized, outcome.transactions, categories, balance,
                                yearlySalary, persisted)
     /\ UNCHANGED <<activeTab, uploadMode, matches, balance, categories, yearlySalary,
                    isInitialized>>
     /\ PersistFrame

\* dispatch(appActions.deleteTransaction(id)), then the save effect
PersistDelete(id) ==
  /\ isInitialized
  /\ id \in Ids(transactions)
  /\ transactions' = DELETE_TRANSACTION(transactions, id)
  /\ persisted' = SaveEffect(isInitialized, DELETE_TRANSACTION(transactions, id), categories,
                             balance, yearlySalary, persisted)
  /\ UNCHANGED <<activeTab, error, uploadMode, matches, balance, categories, yearlySalary,
                 isInitialized>>
  /\ PersistFrame

\* RESET_STATE: the reducer returns initialState
ResetAll ==
  /\ transactions' = initialState.transactions
  /\ error' = initialState.error
  /\ categories' = {}
  /\ balance' = <<>>
  /\ yearlySalary' = <<>>

\* DataManagement.clearAllData (confirmed): resetState and storage.clearData,
\* then the save effect
ClearAllData ==
  /\ isInitialized
  /\ activeTab = "data"
  /\ ResetAll
  /\ persisted' = SaveEffect(isInitialized, initialState.transactions, {}, <<>>, <<>>, clearData)
  /\ UNCHANGED <<activeTab, uploadMode, matches, isInitialized>>
  /\ PersistFrame

\* The 'Clear data' button of FileUpload: resetState, then the save effect
ClearDataButton ==
  /\ isInitialized
  /\ activeTab = "upload"
  /\ Len(transactions) > 0
  /\ ResetAll
  /\ persisted' = SaveEffect(isInitialized, initialState.transactions, {}, <<>>, <<>>, persisted)
  /\ UNCHANGED <<activeTab, uploadMode, matches, isInitialized>>
  /\ PersistFrame

\* BalanceInput.handleBalanceSubmit, then the save effect
SubmitBalance(currentBalance) ==
  /\ isInitialized
  /\ activeTab = "upload"
  /\ currentBalance # <<>> /\ currentBalance[1] >= 0
  /\ balance' = currentBalance
  /\ persisted' = SaveEffect(isInitialized, transactions, categories, currentBalance,
                             yearlySalary, persisted)
  /\ UNCHANGED <<activeTab, transactions, error, uploadMode, matches, categories, yearlySalary,
                 isInitialized>>
  /\ PersistFrame

\* BalanceInput.handleSalarySubmit, then the save effect
SubmitSalary(salary) ==
  /\ isInitialized
  /\ activeTab = "upload"
  /\ salary # <<>> /\ salary[1] >= 0
  /\ yearlySalary' = salary
  /\ persisted' = SaveEffect(isInitialized, transactions, categories, balance, salary, persisted)
  /\ UNCHANGED <<activeTab, transactions, error, uploadMode, matches, balance, categories,
                 isInitialized>>
  /\ PersistFrame

\* parseFloat of the two inputs
PersistBalances == {<<0>>, <<10000>>}
PersistSalaries == {<<0>>, <<5200000>>}

InitPersist == Init /\ tz = 0 /\ parserSource = "hashed"

NextPersist ==
  \/ AppStart
  \/ \E tab \in {"upload", "data"} : isInitialized /\ SetActiveTab(tab)
  \/ \E file \in AsyncFiles : PersistUpload(file)
  \/ \E id \in Ids(transactions) : PersistDelete(id)
  \/ ClearAllData
  \/ ClearDataButton
  \/ \E currentBalance \in PersistBalances : SubmitBalance(currentBalance)
  \/ \E salary \in PersistSalaries : SubmitSalary(salary)

SpecPersist == InitPersist /\ [][NextPersist]_vars

\* ------------------------------------------------------- AI categorization
\* AutoCategorization.processTransactions awaits GeminiService.categorizeBatch;
\* ai.pc is the position of that call, ai.requests the number of requests this
\* run has sent to the LLM service, ai.signalled whether the progress callback
\* of this run has thrown PROCESSING_CANCELLED
AiFrame ==
  /\ UNCHANGED <<tz, parserSource, activeTab>>
  /\ UNCHANGED <<appVars, parserVars, matcherVars, partitionVars, analysisVars, filterVars,
                 asyncVars, storageVars>>

\* The transactions of the batch that starts at index i
BatchLength(total, i, size) == IF i + size < total THEN size ELSE total - i

\* makeRequest: the request is sent when an API key is configured
makeRequest(a) == IF a.key THEN a.requests + 1 ELSE a.requests

\* processTransactions up to the call of categorizeBatch, for n transactions
\* to analyse, with setBatchSize(size) before it
StartProcessing(n, size, key) ==
  /\ activeTab = "ai"
  /\ ai.pc = "idle"
  /\ ai' = [pc |-> "batch", total |-> n, size |-> size, key |-> key, i |-> 0, k |-> 0,
            cancel |-> FALSE, signalled |-> FALSE, requests |-> 0]
  /\ AiFrame

\* stopProcessing (the button is rendered while isProcessing)
StopProcessing ==
  /\ activeTab = "ai"
  /\ ai.pc # "idle"
  /\ ai' = [ai EXCEPT !.cancel = TRUE]
  /\ AiFrame

\* categorizeBatch: categorizeBatchInternal(batch) sends the batch request
SendBatch ==
  /\ ai.pc = "batch"
  /\ ai' = [ai EXCEPT !.pc = "awaitBatch", !.requests = makeRequest(ai)]
  /\ AiFrame

\* The end of processTransactions: isProcessing false, the flag reset
Finished(a) ==
  [a EXCEPT !.pc = "idle", !.cancel = FALSE, !.signalled = FALSE]

\* The loop's step i += BATCH_SIZE and its test
NextBatch(a) ==
  IF a.i + a.size < a.total THEN [a EXCEPT !.pc = "batch", !.i = a.i + a.size]
  ELSE Finished(a)

\* categorizeBatchInternal returns (it catches its own errors), then
\* onProgress inside the try block: its throw is caught by the batch's catch,
\* which starts the individual processing of the batch
BatchReturns ==
  /\ ai.pc = "awaitBatch"
  /\ ai' = IF ai.cancel
           THEN [ai EXCEPT !.pc = "fallback", !.k = 0, !.signalled = TRUE]
           ELSE IF ai.i + ai.size < ai.total THEN [ai EXCEPT !.pc = "delay"]
           ELSE NextBatch(ai)
  /\ AiFrame

\* The 200 ms delay between batches elapses
DelayElapsed ==
  /\ ai.pc = "delay"
  /\ ai' = NextBatch(ai)
  /\ AiFrame

\* The catch block: categorizeTransaction sends the request of transaction k
SendOne ==
  /\ ai.pc = "fallback"
  /\ ai.k < BatchLength(ai.total, ai.i, ai.size)
  /\ ai' = [ai EXCEPT !.pc = "awaitOne", !.requests = makeRequest(ai)]
  /\ AiFrame

\* categorizeTransaction returns (it catches its own errors)
OneReturns ==
  /\ ai.pc = "awaitOne"
  /\ ai' = [ai EXCEPT !.pc = "fallback", !.k = ai.k + 1]
  /\ AiFrame

\* The catch block's onProgress, outside any try: its throw ends
\* categorizeBatch and processTransactions
FallbackProgress ==
  /\ ai.pc = "fallback"
  /\ ai.k = BatchLength(ai.total, ai.i, ai.size)
  /\ ai' = IF ai.cancel THEN Finished(ai) ELSE NextBatch(ai)
  /\ AiFrame

InitAi == Init /\ tz = 0 /\ parserSource = "hashed"

NextAi ==
  \/ \E tab \in {"upload", "ai"} : ai.pc = "idle" /\ SetActiveTab(tab)
  \/ \E n \in 1..MaxAiTx, size \in 1..MaxBatchSize, key \in BOOLEAN :
        StartProcessing(n, size, key)
  \/ StopProcessing
  \/ SendBatch
  \/ BatchReturns
  \/ DelayElapsed
  \/ SendOne
  \/ OneReturns
  \/ FallbackProgress

SpecAi == InitAi /\ [][NextAi]_vars

\* ------------------------------------------------------------ parser alone
\* The application at rest while a pure function is exercised
IdleApp ==
  /\ activeTab = "upload"
  /\ transactions = initialState.transactions
  /\ error = initialState.error
  /\ uploadMode = "combine"
  /\ matches = <<>>

\* One call of parseCSV on the content; each row's Math.random outcome is any
\* draw (read by the random-id module only)
ParseContent ==
  /\ Len(parses) < MaxParses
  /\ \E draws \in [1..Len(csvContent) -> RandomDraws] :
        parses' = Append(parses, parseCSV(csvContent, tz, parserSource, draws))
  /\ UNCHANGED <<tz, parserSource, activeTab, csvContent>>
  /\ UNCHANGED <<appVars, matcherVars, partitionVars, analysisVars, filterVars, asyncVars, aiVars, storageVars>>

InitParser ==
  /\ tz \in TZOffsets
  /\ parserSource \in ParserSources
  /\ csvContent \in Files
  /\ parses = <<>>
  /\ IdleApp /\ IdleMatcher /\ IdlePartition /\ IdleAnalysis /\ IdleFilter /\ IdleRest

NextParser == ParseContent

SpecParser == InitParser /\ [][NextParser]_vars

\* ------------------------------------------------------- date cells alone
\* Rows whose date cell has the DD/MM/YYYY shape: two calendar dates, and
\* 31/02/2025, 10/13/2025, 00/07/2025, 15/00/2025, which are none
DateCells == {<<27, 7, 2025>>, <<1, 3, 2025>>, <<31, 2, 2025>>, <<10, 13, 2025>>,
              <<0, 7, 2025>>, <<15, 0, 2025>>}
DateRows ==
  {[date |-> cell, money |-> Money_Minus23, description |-> Str_Coles] : cell \in DateCells}

InitDates ==
  /\ tz \in TZOffsets
  /\ parserSource \in ParserSources
  /\ csvContent \in NonEmptySeqsUpTo(DateRows, MaxRows)
  /\ parses = <<>>
  /\ IdleApp /\ IdleMatcher /\ IdlePartition /\ IdleAnalysis /\ IdleFilter /\ IdleRest

SpecDates == InitDates /\ [][NextParser]_vars

\* ------------------------------------------------------- re-upload scenario
\* The same CSV content uploaded again and again; parses records what each
\* upload's parseCSV returned
UploadContent ==
  /\ Len(parses) < MaxUploads
  /\ HandleFileUpload(csvContent)
  /\ parses' = Append(parses, parseCSV(csvContent, tz, parserSource,
                                       FreshDraws(UsedIds(uploadMode), Len(csvContent), 1)))
  /\ UNCHANGED csvContent

InitReupload ==
  /\ tz \in TZOffsets
  /\ parserSource \in ParserSources
  /\ csvContent \in Files
  /\ parses = <<>>
  /\ IdleApp /\ IdleMatcher /\ IdlePartition /\ IdleAnalysis /\ IdleFilter /\ IdleRest

NextReupload ==
  \/ \E tab \in Tabs : SetActiveTab(tab)
  \/ \E mode \in {"replace", "combine"} : SetUploadMode(mode)
  \/ UploadContent
  \/ \E id \in Ids(transactions), c \in Categories : HandleSaveCategory(id, c)
  \/ \E id \in Ids(transactions), c \in Categories : ApplySuggestion(id, c)
  \/ \E i \in 1..Len(transactions) : RemoveCategory(i)
  \/ \E parsed \in PayPalFiles : PayPalHandleFileUpload(parsed)
  \/ \E k \in 1..Len(matches) : ApplyPayPalData(k)
  \/ ApplyAllPayPalData

SpecReupload == InitReupload /\ [][NextReupload]_vars

\* ----------------------------------------------------------- matcher alone
Day_27Jul == DayNumber(2025, 6, 27)
Day_10Aug == DayNumber(2025, 7, 10)

BankTransaction(id, date, money, description) ==
  [id |-> id, date |-> date, money |-> money, description |-> description,
   category |-> Undefined, isIncome |-> money > 0, paypalData |-> <<>>]

B_Coles == BankTransaction(<<1>>, Day_27Jul, 0 - 2300, Str_PaypalColes)
B_ColesTwin == BankTransaction(<<2>>, Day_27Jul, 0 - 2300, Str_PaypalColes)
B_ColesLate == BankTransaction(<<3>>, Day_10Aug, 0 - 2300, Str_PaypalColes)
B_ColesPlain == BankTransaction(<<4>>, Day_10Aug, 0 - 2300, Str_Coles)
B_ColesCent == BankTransaction(<<5>>, Day_27Jul, 0 - 2301, Str_PaypalColes)
B_RefundLate == BankTransaction(<<6>>, Day_10Aug, 2300, Str_PaypalColes)
BankPool == {B_Coles, B_ColesTwin, B_ColesLate, B_ColesPlain, B_ColesCent, B_RefundLate}
SecondaryPool == {PP_Coles, PP_ColesAgain, PP_Transfer, PP_Pending}

RunMatcher ==
  /\ matchOutput = <<>>
  /\ matchOutput' = <<matchPayPalTransactions(bankList, secondaryList, tz)>>
  /\ UNCHANGED <<tz, parserSource, activeTab, bankList, secondaryList>>
  /\ UNCHANGED <<appVars, parserVars, partitionVars, analysisVars, filterVars, asyncVars, aiVars, storageVars>>

InitMatcher ==
  /\ tz \in TZOffsets
  /\ parserSource = "hashed"
  /\ bankList \in SeqsUpTo(BankPool, MaxBank)
  /\ secondaryList \in SeqsUpTo(SecondaryPool, MaxSecondary)
  /\ matchOutput = <<>>
  /\ IdleApp /\ IdleParser /\ IdlePartition /\ IdleAnalysis /\ IdleFilter /\ IdleRest

NextMatcher == RunMatcher

SpecMatcher == InitMatcher /\ [][NextMatcher]_vars

\* The matcher on bank dates 4, 3 and 1 days around the secondary dates
DateBankPool ==
  {BankTransaction(<<d>>, DayNumber(2025, 6, d), 0 - 2300, Str_PaypalColes) :
     d \in {23, 24, 27, 28, 30, 31}}
DateSecondaryPool == {PP_Coles, PP_ColesAgain}

InitMatchDates ==
  /\ tz \in TZOffsets
  /\ parserSource = "hashed"
  /\ bankList \in SeqsUpTo(DateBankPool, MaxBank)
  /\ secondaryList \in SeqsUpTo(DateSecondaryPool, MaxSecondary)
  /\ matchOutput = <<>>
  /\ IdleApp /\ IdleParser /\ IdlePartition /\ IdleAnalysis /\ IdleFilter /\ IdleRest

SpecMatchDates == InitMatchDates /\ [][NextMatcher]_vars

\* 'Apply to Transaction' and 'Apply All Matches' on a secondary CSV of up to
\* MaxSecondary records
ApplyBankPool == {B_Coles, B_ColesTwin, B_ColesLate}
ApplySecondaryFiles == SeqsUpTo(DateSecondaryPool, MaxSecondary)

InitApplyAll ==
  /\ tz \in TZOffsets
  /\ parserSource = "hashed"
  /\ activeTab = "transactions"
  /\ transactions \in {txs \in NonEmptySeqsUpTo(ApplyBankPool, MaxTx) :
                         Cardinality(Ids(txs)) = Len(txs)}
  /\ error = initialState.error
  /\ uploadMode = "replace"
  /\ matches = <<>>
  /\ IdleParser /\ IdleMatcher /\ IdlePartition /\ IdleAnalysis /\ IdleFilter /\ IdleRest

NextApplyAll ==
  \/ \E parsed \in ApplySecondaryFiles : PayPalHandleFileUpload(parsed)
  \/ \E k \in 1..MaxSecondary : ApplyPayPalData(k)
  \/ ApplyAllPayPalData

SpecApplyAll == InitApplyAll /\ [][NextApplyAll]_vars

\* ------------------------------------------------------------ flow partition
isIncomeTransaction(transaction) ==
  transaction.isIncome \/ transaction.category = "Income Offset"

isExpenseTransaction(transaction) ==
  /\ ~transaction.isIncome
  /\ transaction.category # "Investment"
  /\ transaction.category # "Income Offset"

\* isInvestmentTransaction without the !transaction.isIncome conjunct
isInvestmentTransaction_AnyDirection(transaction) ==
  transaction.category = "Investment"

isInvestmentTransaction(transaction) ==
  ~transaction.isIncome /\ transaction.category = "Investment"

isIncomeOffsetTransaction(transaction) == transaction.category = "Income Offset"

getIncomeTransactions(txs) == SelectSeq(txs, isIncomeTransaction)
getExpenseTransactions(txs) == SelectSeq(txs, isExpenseTransaction)
getInvestmentTransactions(txs) == SelectSeq(txs, isInvestmentTransaction)
getIncomeOffsetTransactions(txs) == SelectSeq(txs, isIncomeOffsetTransaction)

\* Categories of the sampled transactions: absent, the two special ones and a
\* user-defined one
SampleCategories == {Undefined, "Investment", "Income Offset", "Groceries"}
SampleMoney == {0 - 2300, 250000}
SamplePool ==
  {[BankTransaction(<<1>>, Day_27Jul, m, Str_Coles) EXCEPT !.category = c] :
     m \in SampleMoney, c \in SampleCategories}

ComputeViews ==
  /\ views = <<>>
  /\ views' = <<[expense |-> getExpenseTransactions(sample),
                 income |-> getIncomeTransactions(sample),
                 investment |-> getInvestmentTransactions(sample)]>>
  /\ UNCHANGED <<tz, parserSource, activeTab, sample>>
  /\ UNCHANGED <<appVars, parserVars, matcherVars, analysisVars, filterVars, asyncVars, aiVars, storageVars>>

InitPartition ==
  /\ tz = 0
  /\ parserSource = "hashed"
  /\ sample \in SeqsUpTo(SamplePool, MaxPartition)
  /\ views = <<>>
  /\ IdleApp /\ IdleParser /\ IdleMatcher /\ IdleAnalysis /\ IdleFilter /\ IdleRest

NextPartition == ComputeViews

SpecPartition == InitPartition /\ [][NextPartition]_vars

\* ------------------------------------------------------------ calculations
\* A JS number that results from a division is kept as the fraction num/den
\* (root: the square root of that fraction); den = 0 is NaN or Infinity.
Ratio(n, d) == [num |-> n, den |-> d, root |-> FALSE]
Zero == Ratio(0, 1)
Divide(x, d) == [x EXCEPT !.den = x.den * d]
Times(x, k) == [x EXCEPT !.num = x.num * k]
sqrt(x) == [x EXCEPT !.root = TRUE]
IsZero(x) == x.den # 0 /\ x.num = 0

\* [...transactions].sort((a, b) => date(a) - date(b)): Array.prototype.sort
\* is stable, equal dates keep their input order
RECURSIVE SortByDate(_)
SortByDate(txs) ==
  IF txs = <<>> THEN <<>>
  ELSE LET last == txs[Len(txs)]
           front == SortByDate(SubSeq(txs, 1, Len(txs) - 1))
           notAfter == SelectSeq(front, LAMBDA t : t.date <= last.date)
           after == SelectSeq(front, LAMBDA t : t.date > last.date)
       IN notAfter \o <<last>> \o after

\* calculateIncomeTotal adding t.money whatever the direction
RECURSIVE calculateIncomeTotal_Signed(_)
calculateIncomeTotal_Signed(incomeTransactions) ==
  IF incomeTransactions = <<>> THEN 0
  ELSE LET n == Len(incomeTransactions)
       IN calculateIncomeTotal_Signed(SubSeq(incomeTransactions, 1, n - 1))
            + incomeTransactions[n].money

RECURSIVE calculateIncomeTotal(_)
calculateIncomeTotal(incomeTransactions) ==
  IF incomeTransactions = <<>> THEN 0
  ELSE LET n == Len(incomeTransactions)
           t == incomeTransactions[n]
       IN calculateIncomeTotal(SubSeq(incomeTransactions, 1, n - 1))
            + (IF t.isIncome THEN t.money ELSE Abs(t.money))

RECURSIVE calculateExpenseTotal(_)
calculateExpenseTotal(expenseTransactions) ==
  IF expenseTransactions = <<>> THEN 0
  ELSE LET n == Len(expenseTransactions)
       IN calculateExpenseTotal(SubSeq(expenseTransactions, 1, n - 1))
            + Abs(expenseTransactions[n].money)

RECURSIVE totalTransactionChange(_)
totalTransactionChange(sortedTransactions) ==
  IF sortedTransactions = <<>> THEN 0
  ELSE LET n == Len(sortedTransactions)
       IN totalTransactionChange(SubSeq(sortedTransactions, 1, n - 1))
            + sortedTransactions[n].money

\* The forEach pushing the point before it increases the running value
RECURSIVE Accumulate_PushFirst(_, _)
Accumulate_PushFirst(sortedTransactions, start) ==
  IF sortedTransactions = <<>> THEN <<>>
  ELSE LET n == Len(sortedTransactions)
           front == SubSeq(sortedTransactions, 1, n - 1)
           t == sortedTransactions[n]
       IN Append(Accumulate_PushFirst(front, start),
                 [date |-> t.date, value |-> t.money,
                  cumulative |-> start + totalTransactionChange(front)])

\* The forEach of calculateTrendData and calculateBalanceAwareTrendData:
\* the running value is increased by the transaction's money BEFORE the point
\* is pushed
RECURSIVE Accumulate(_, _)
Accumulate(sortedTransactions, start) ==
  IF sortedTransactions = <<>> THEN <<>>
  ELSE LET n == Len(sortedTransactions)
           front == SubSeq(sortedTransactions, 1, n - 1)
           t == sortedTransactions[n]
       IN Append(Accumulate(front, start),
                 [date |-> t.date, value |-> t.money,
                  cumulative |-> start + totalTransactionChange(front) + t.money])

calculateTrendData(txs) == Accumulate(SortByDate(txs), 0)

\* !currentBalance holds of null and of 0
calculateBalanceAwareTrendData(txs, currentBalance) ==
  IF currentBalance = <<>> \/ currentBalance[1] = 0 THEN calculateTrendData(txs)
  ELSE LET sortedTransactions == SortByDate(txs)
       IN IF Len(sortedTransactions) = 0 THEN <<>>
          ELSE Accumulate(sortedTransactions,
                          currentBalance[1] - totalTransactionChange(sortedTransactions))

\* Sum of f[i] for i in 1..n, the reduce calls over index-aligned arrays
RECURSIVE SumTo(_, _)
SumTo(f, n) == IF n = 0 THEN 0 ELSE SumTo(f, n - 1) + f[n]

\* The regression of calculateTrend on the indices 0..n-1, whatever n is
Regression(txs) ==
  LET sortedTransactions == SortByDate(txs)
      n == Len(sortedTransactions)
      xValues == [i \in 1..n |-> i - 1]
      yValues == [i \in 1..n |-> sortedTransactions[i].money]
      sumX == SumTo(xValues, n)
      sumY == SumTo(yValues, n)
      sumXY == SumTo([i \in 1..n |-> xValues[i] * yValues[i]], n)
      sumXX == SumTo([i \in 1..n |-> xValues[i] * xValues[i]], n)
  IN Ratio(n * sumXY - sumX * sumY, n * sumXX - sumX * sumX)

\* calculateTrend without its first line
calculateTrend_NoGuard(txs) == Regression(txs)

calculateTrend(txs) == IF Len(txs) < 2 THEN Zero ELSE Regression(txs)

\* The statistics of calculateSpendingAnalysis past its early return; Math.min
\* and Math.max of no date give an Invalid Date, whose day span is NaN
Statistics(expenses) ==
  LET totalSpending == calculateExpenseTotal(expenses)
      n == Len(expenses)
      dates == {expenses[i].date : i \in 1..n}
      minDate == CHOOSE d \in dates : \A e \in dates : d <= e
      maxDate == CHOOSE d \in dates : \A e \in dates : d >= e
      dailyAverage == IF dates = {} THEN Ratio(totalSpending, 0)
                      ELSE Ratio(totalSpending, (maxDate - minDate) + 1)
      squares == [i \in 1..n |->
                    (n * Abs(expenses[i].money) - totalSpending)
                      * (n * Abs(expenses[i].money) - totalSpending)]
      variance == Ratio(SumTo(squares, n), n * n * n)
  IN [dailyAverage |-> dailyAverage,
      weeklyAverage |-> Times(dailyAverage, 7),
      monthlyAverage |-> Divide(Times(dailyAverage, 3044), 100),
      yearlyAverage |-> Divide(Times(dailyAverage, 36525), 100),
      variance |-> variance,
      standardDeviation |-> sqrt(variance)]

\* calculateSpendingAnalysis without the expenses.length === 0 return
calculateSpendingAnalysis_NoGuard(txs) == Statistics(getExpenseTransactions(txs))

calculateSpendingAnalysis(txs) ==
  LET expenses == getExpenseTransactions(txs)
  IN IF Len(expenses) = 0
       THEN [dailyAverage |-> Zero, weeklyAverage |-> Zero,
             monthlyAverage |-> Zero, yearlyAverage |-> Zero,
             variance |-> Zero, standardDeviation |-> Zero]
       ELSE Statistics(expenses)

\* spendingByCategory, topCategories (its five largest entries) is not kept
spendingByCategory(expenses) ==
  LET categoryOf(t) == IF t.category = Undefined THEN "Uncategorized" ELSE t.category
      names == {categoryOf(expenses[i]) : i \in 1..Len(expenses)}
  IN [c \in names |->
        calculateExpenseTotal(SelectSeq(expenses, LAMBDA t : categoryOf(t) = c))]

calculateAnalysisResult(txs) ==
  LET expenses == getExpenseTransactions(txs)
      income == getIncomeTransactions(txs)
      investments == getInvestmentTransactions(txs)
      totalSpending == calculateExpenseTotal(expenses)
      totalIncome == calculateIncomeTotal(income)
      totalInvestments == calculateExpenseTotal(investments)
      spendingAnalysis == calculateSpendingAnalysis(txs)
  IN [totalSpending |-> totalSpending,
      totalIncome |-> totalIncome,
      netChange |-> (totalIncome - totalSpending) - totalInvestments,
      averageDailySpending |-> spendingAnalysis.dailyAverage,
      averageWeeklySpending |-> spendingAnalysis.weeklyAverage,
      averageMonthlySpending |-> spendingAnalysis.monthlyAverage,
      averageYearlySpending |-> spendingAnalysis.yearlyAverage,
      spendingByCategory |-> spendingByCategory(expenses),
      trendData |-> calculateTrendData(txs)]

\* ---------------------------------------------------------- analysis alone
Day_28Jul == DayNumber(2025, 6, 28)
A_Coles == BankTransaction(<<1>>, Day_27Jul, 0 - 2300, Str_Coles)
A_Salary == BankTransaction(<<2>>, Day_28Jul, 250000, Str_Salary)
A_Invest ==
  [BankTransaction(<<3>>, Day_10Aug, 0 - 5000, Str_Adj) EXCEPT !.category = "Investment"]
A_Offset ==
  [BankTransaction(<<4>>, Day_27Jul, 0 - 1000, Str_Adj) EXCEPT !.category = "Income Offset"]
A_Groceries ==
  [BankTransaction(<<5>>, Day_10Aug, 0 - 5000, Str_Coles) EXCEPT !.category = "Groceries"]
A_Dividend ==
  [BankTransaction(<<6>>, Day_28Jul, 4000, Str_Adj) EXCEPT !.category = "Investment"]
AnalysisPool == {A_Coles, A_Salary, A_Invest, A_Offset, A_Groceries, A_Dividend}

\* What the user types in the balance field, after parseFloat: NaN (<<>>), a
\* negative amount, zero, a positive amount
BalanceInputs == {<<>>, <<0 - 5000>>, <<0>>, <<10000>>}

\* BalanceInput.handleBalanceSubmit; the views computed from the state are
\* computed again on the next render
handleBalanceSubmit(currentBalance) ==
  /\ IF currentBalance # <<>> /\ currentBalance[1] >= 0
       THEN balance' = currentBalance /\ analysis' = NoAnalysis
       ELSE UNCHANGED <<balance, analysis>>
  /\ UNCHANGED <<tz, parserSource, activeTab, ledger>>
  /\ UNCHANGED <<appVars, parserVars, matcherVars, partitionVars, filterVars, asyncVars, aiVars, storageVars>>

AnalysisFrame ==
  /\ UNCHANGED <<tz, parserSource, activeTab, ledger, balance>>
  /\ UNCHANGED <<appVars, parserVars, matcherVars, partitionVars, filterVars, asyncVars, aiVars, storageVars>>

ComputeAnalysisResult ==
  /\ analysis.result = <<>>
  /\ analysis' = [analysis EXCEPT !.result = <<calculateAnalysisResult(ledger)>>]
  /\ AnalysisFrame

ComputeBalanceTrend ==
  /\ analysis.balanceTrend = <<>>
  /\ analysis' = [analysis EXCEPT
                    !.balanceTrend = <<calculateBalanceAwareTrendData(ledger, balance)>>]
  /\ AnalysisFrame

ComputeTrend ==
  /\ analysis.trend = <<>>
  /\ analysis' = [analysis EXCEPT !.trend = <<calculateTrend(ledger)>>]
  /\ AnalysisFrame

ComputeSpendingAnalysis ==
  /\ analysis.spending = <<>>
  /\ analysis' = [analysis EXCEPT !.spending = <<calculateSpendingAnalysis(ledger)>>]
  /\ AnalysisFrame

InitAnalysis ==
  /\ tz = 0
  /\ parserSource = "hashed"
  /\ ledger \in SeqsUpTo(AnalysisPool, MaxAnalysis)
  /\ balance = <<>>
  /\ analysis = NoAnalysis
  /\ IdleApp /\ IdleParser /\ IdleMatcher /\ IdlePartition /\ IdleFilter /\ IdleRest

NextAnalysis ==
  \/ \E currentBalance \in BalanceInputs : handleBalanceSubmit(currentBalance)
  \/ ComputeAnalysisResult
  \/ ComputeBalanceTrend
  \/ ComputeTrend
  \/ ComputeSpendingAnalysis

SpecAnalysis == InitAnalysis /\ [][NextAnalysis]_vars

\* ------------------------------------------------------------- time filter
\* The local calendar day of an instant, and its Date getters
LocalDay(instant, offset) == (instant + offset) \div 24
getFullYear(day) == 2025 + ((day - 1) \div 365)
DayOfYear(day) == ((day - 1) % 365) + 1
getMonth(day) ==
  CHOOSE m \in 0..11 :
    /\ DaysBeforeMonth[m + 1] < DayOfYear(day)
    /\ (m = 11 \/ DayOfYear(day) <= DaysBeforeMonth[m + 2])
getDate(day) == DayOfYear(day) - DaysBeforeMonth[getMonth(day) + 1]
getDay(day) == (day + 2) % 7      \* 0 is Sunday; 2025-01-01 is a Wednesday

\* getTime() of new Date(year, monthIndex, day), a local midnight, and of
\* new Date('YYYY-MM-DD'), a UTC midnight
LocalMidnight(day, offset) == 24 * day - offset
UTCMidnight(day) == 24 * day

TimePeriods == {"all", "day", "week", "month", "3months", "6months", "year", "custom"}

\* filterTransactionsByPeriod(transactions, period), run at the instant
\* instant by a runtime at the UTC offset offset
filterTransactionsByPeriod(txs, timePeriod, instant, offset) ==
  IF timePeriod = "all" THEN txs
  ELSE LET localNow == LocalDay(instant, offset)
           today == LocalMidnight(localNow, offset)
           dayOfWeek == getDay(localNow)
           daysFromMonday == IF dayOfWeek = 0 THEN 6 ELSE dayOfWeek - 1
           year == getFullYear(localNow)
           month == getMonth(localNow)
           startDate ==
             CASE timePeriod = "day" -> today
               [] timePeriod = "week" -> today - daysFromMonday * 24
               [] timePeriod = "month" -> LocalMidnight(DayNumber(year, month, 1), offset)
               [] timePeriod = "3months" ->
                    LocalMidnight(DayNumber(year, month - 3, getDate(localNow)), offset)
               [] timePeriod = "6months" ->
                    LocalMidnight(DayNumber(year, month - 6, getDate(localNow)), offset)
               [] timePeriod = "year" -> LocalMidnight(DayNumber(year, 0, 1), offset)
       IN IF timePeriod \notin {"day", "week", "month", "3months", "6months", "year"}
            THEN txs
            ELSE SelectSeq(txs, LAMBDA transaction :
                   /\ UTCMidnight(transaction.date) >= startDate
                   /\ UTCMidnight(transaction.date) <= instant)

\* -------------------------------------------------------- time filter alone
Day_1Jan == DayNumber(2025, 0, 1)
Day_1Aug == DayNumber(2025, 7, 1)
Day_4Aug == DayNumber(2025, 7, 4)
Day_9Aug == DayNumber(2025, 7, 9)
Day_11Aug == DayNumber(2025, 7, 11)
FilterDays == {Day_1Jan, Day_1Aug, Day_4Aug, Day_9Aug, Day_10Aug, Day_11Aug}
FilterPool == {BankTransaction(<<d>>, d, 0 - 2300, Str_Coles) : d \in FilterDays}

\* new Date(): 03:00 and 20:00 UTC of Sunday 10 August 2025
Instants == {UTCMidnight(Day_10Aug) + 3, UTCMidnight(Day_10Aug) + 20}

\* The values of the two date inputs: '' (<<>>) or a day
RangeDays == {<<>>, <<Day_4Aug>>, <<Day_10Aug>>}

FilterFrame ==
  /\ UNCHANGED <<tz, parserSource, activeTab, now, listed>>
  /\ UNCHANGED <<appVars, parserVars, matcherVars, partitionVars, analysisVars, asyncVars, aiVars, storageVars>>

onPeriodChange(timePeriod) ==
  /\ period' = timePeriod
  /\ filtered' = <<>>
  /\ UNCHANGED customRange
  /\ FilterFrame

handleCustomDateChange(field, value) ==
  /\ period = "custom"
  /\ customRange' = [customRange EXCEPT ![field] = value]
  /\ filtered' = <<>>
  /\ UNCHANGED period
  /\ FilterFrame

\* CategoryAnalysis passes customDateRange as a third argument, which
\* filterTransactionsByPeriod does not take
RenderFiltered ==
  /\ filtered = <<>>
  /\ filtered' = <<filterTransactionsByPeriod(listed, period, now, tz)>>
  /\ UNCHANGED <<period, customRange>>
  /\ FilterFrame

InitFilter ==
  /\ tz \in TZOffsets
  /\ parserSource = "hashed"
  /\ period = "all"
  /\ customRange = [startDate |-> <<>>, endDate |-> <<>>]
  /\ now \in Instants
  /\ listed \in SeqsUpTo(FilterPool, MaxFilter)
  /\ filtered = <<>>
  /\ IdleApp /\ IdleParser /\ IdleMatcher /\ IdlePartition /\ IdleAnalysis /\ IdleRest

NextFilter ==
  \/ \E timePeriod \in TimePeriods : onPeriodChange(timePeriod)
  \/ \E field \in {"startDate", "endDate"}, value \in RangeDays :
       handleCustomDateChange(field, value)
  \/ RenderFiltered

SpecFilter == InitFilter /\ [][NextFilter]_vars

\* =================================================================== claims

\* C1: parsing the same CSV content twice with parseCSV yields the same
\* sequence of transaction ids, in the same order, and rows with equal
\* (date, amount, trimmed description) get equal ids.
C1_ParseTwiceSameIds ==
  LET IdsOf(result) == [k \in 1..Len(result.value) |-> result.value[k].id]
  IN /\ \A i, j \in 1..Len(parses) : IdsOf(parses[i]) = IdsOf(parses[j])
     /\ \A i, j \in 1..Len(parses) :
          \A a \in 1..Len(parses[i].value), b \in 1..Len(parses[j].value) :
             LET x == parses[i].value[a]
                 y == parses[j].value[b]
             IN (x.date = y.date /\ x.money = y.money /\ x.description = y.description)
                  => x.id = y.id

\* C2: in every reachable state and upload mode, what handleFileUpload does
\* with a CSV one of whose rows fails date or amount parsing is: report the
\* 1-based index of the first such row and keep the stored transactions as
\* they are.
C2_FailingRowRejectsWholeFile ==
  \A file \in Files :
     LET Bad(i) == RowError(file[i], tz) \in {"Invalid date format", "Invalid money format"}
         bad == {i \in 1..Len(file) : Bad(i)}
         result == parseCSV(file, tz, parserSource,
                            FreshDraws(UsedIds(uploadMode), Len(file), 1))
         outcome == UploadOutcome(result, uploadMode, transactions, error)
     IN bad # {} =>
          /\ ~result.ok
          /\ result.row \in bad
          /\ \A i \in bad : result.row <= i
          /\ outcome.transactions = transactions
          /\ outcome.error.row = result.row
          /\ outcome.error.message = RowError(file[result.row], tz)

\* The last upload failed on its second row while transactions were stored
C2_Witness ==
  /\ error.row = 2
  /\ error.message = "Invalid money format"
  /\ transactions # <<>>

\* C3: once a CSV has been imported, whatever category edits, suggestion
\* applications and match applications followed, uploading the same CSV again
\* in combine mode leaves the stored transactions unchanged.
C3_ReuploadAddsNothing ==
  [][(/\ UploadContent
      /\ uploadMode = "combine"
      /\ parses # <<>>
      /\ parses[1].ok
      /\ parses[1].value # <<>>)
       => transactions' = transactions]_vars

\* C4: every stored transaction has money other than zero.
C4_NoZeroMoney ==
  \A i \in 1..Len(transactions) : transactions[i].money # 0

\* The last upload parsed and every row of it was dropped for its zero amount,
\* while transactions are stored
C4_Witness ==
  /\ transactions # <<>>
  /\ error = Err("No valid transactions found in the CSV file")

\* C5: every stored transaction has isIncome = (money > 0), and no category
\* edit, suggestion application or match application changes the isIncome or
\* the money of a stored transaction (a step keeps both, or is none of these).
C5_IncomeFlagFollowsSign ==
  /\ [](\A i \in 1..Len(transactions) :
          transactions[i].isIncome = (transactions[i].money > 0))
  /\ [][\/ /\ Len(transactions') = Len(transactions)
           /\ \A i \in 1..Len(transactions) :
                /\ transactions'[i].isIncome = transactions[i].isIncome
                /\ transactions'[i].money = transactions[i].money
        \/ ~(\/ \E id \in Ids(transactions), c \in Categories :
                  HandleSaveCategory(id, c) \/ ApplySuggestion(id, c)
             \/ \E i \in 1..Len(transactions) : RemoveCategory(i)
             \/ \E k \in 1..Len(matches) : ApplyPayPalData(k)
             \/ ApplyAllPayPalData)]_vars

\* An outflow recategorised as Income Offset that also had a match applied
C5_Witness ==
  \E i \in 1..Len(transactions) :
     /\ transactions[i].category = "Income Offset"
     /\ ~transactions[i].isIncome
     /\ transactions[i].paypalData # <<>>

\* C6: applying a match (one, or all) leaves the id, date, money and category
\* of every stored transaction as they were just before the apply.
C6_ApplyKeepsIdDateMoneyCategory ==
  [][((\E k \in 1..Len(matches) : ApplyPayPalData(k)) \/ ApplyAllPayPalData)
       => /\ Len(transactions') = Len(transactions)
          /\ \A i \in 1..Len(transactions) :
               /\ transactions'[i].id = transactions[i].id
               /\ transactions'[i].date = transactions[i].date
               /\ transactions'[i].money = transactions[i].money
               /\ transactions'[i].category = transactions[i].category]_vars

\* C7: the matcher's result lists, in the order of the completed external
\* secondary records, one match for each record whose best score over the bank
\* list exceeds 0.80 and none for the others; the matched bank transaction is
\* the earliest of those with the maximum score.
C7_EarliestBestAboveThreshold ==
  matchOutput # <<>> =>
    LET out == matchOutput[1]
        Kept(t) == IsExternal(t) /\ t.status = Status_Completed
        kept == SelectSeq(secondaryList, Kept)
        n == Len(bankList)
        Score(i, j) == calculateMatchConfidence(bankList[i], kept[j], tz)
        matched == {j \in 1..Len(kept) : \E i \in 1..n : Score(i, j) > 80}
        Nth(k) == CHOOSE j \in matched : Cardinality({m \in matched : m <= j}) = k
    IN /\ Len(out) = Cardinality(matched)
       /\ \A k \in 1..Len(out) :
            LET j == Nth(k)
                score == [i \in 1..n |-> Score(i, j)]
                first == CHOOSE i \in 1..n :
                           /\ \A h \in 1..n : score[h] <= score[i]
                           /\ \A h \in 1..(i - 1) : score[h] < score[i]
            IN /\ out[k].paypalTransaction = kept[j]
               /\ out[k].bankTransaction = bankList[first]
               /\ out[k].confidence = score[first]
               /\ out[k].confidence > 80

\* Two bank transactions tie on the maximum score and the first one is matched,
\* next to a secondary record that got no match
C7_Witness ==
  /\ matchOutput # <<>>
  /\ bankList = <<B_Coles, B_ColesTwin>>
  /\ secondaryList = <<PP_Pending, PP_Coles>>
  /\ Len(matchOutput[1]) = 1
  /\ matchOutput[1][1].bankTransaction = B_Coles

\* C8: no match pairs a bank transaction and a secondary record whose amounts
\* differ by more than 1 cent and whose calendar dates differ by more than 3 days.
C8_FarPairNeverMatched ==
  matchOutput # <<>> =>
    \A k \in 1..Len(matchOutput[1]) :
       LET bank == matchOutput[1][k].bankTransaction
           paypal == matchOutput[1][k].paypalTransaction
           paypalDay == DayNumber(paypal.date[3], paypal.date[2] - 1, paypal.date[1])
       IN ~(/\ Abs(bank.money - paypal.total) > 1
            /\ Abs(bank.date - paypalDay) > 3)

\* C9: in every match both the amount criterion and the date criterion hold.
C9_MatchAgreesOnAmountAndDate ==
  matchOutput # <<>> =>
    \A k \in 1..Len(matchOutput[1]) :
       LET bank == matchOutput[1][k].bankTransaction
           paypal == matchOutput[1][k].paypalTransaction
       IN /\ AmountWithinEpsilon(bank.money, paypal.total)
          /\ DaysDiffWithin(bank, paypal, tz, 3)

\* C10: every transaction of the set is in exactly one of the expense, income
\* and investment views, and every Income Offset transaction is in the income
\* view.
C10_ExactlyOneView ==
  views # <<>> =>
    LET v == views[1]
        In(t, view) == IF t \in Range(view) THEN 1 ELSE 0
        Count(t, list) == Cardinality({i \in 1..Len(list) : list[i] = t})
    IN /\ \A t \in Range(sample) :
            /\ In(t, v.expense) + In(t, v.income) + In(t, v.investment) = 1
            /\ Count(t, v.expense) + Count(t, v.income) + Count(t, v.investment)
                 = Count(t, sample)
            /\ t.category = "Income Offset" => t \in Range(v.income)
       /\ Range(v.expense) \cup Range(v.income) \cup Range(v.investment) = Range(sample)

\* An inflow categorised Investment next to an outflow categorised Income Offset
C10_Witness ==
  /\ views # <<>>
  /\ \E t \in Range(sample) : t.isIncome /\ t.category = "Investment"
  /\ \E t \in Range(sample) : ~t.isIncome /\ t.category = "Income Offset"


\* C11: calculateAnalysisResult returns netChange = totalIncome - totalSpending
\* - totalInvestment, where totalIncome sums money (isIncome) or |money| over
\* the income view, totalSpending sums |money| over the expense view and
\* totalInvestment sums |money| over the investment view; for (-23.00 Coles,
\* +2500.00 Salary) income is 2500, expense 23 and net change 2477.
C11_NetChangeFormula ==
  analysis.result # <<>> =>
    LET r == analysis.result[1]
        inc == getIncomeTransactions(ledger)
        exp == getExpenseTransactions(ledger)
        inv == getInvestmentTransactions(ledger)
        income == SumTo([i \in 1..Len(inc) |->
                           IF inc[i].isIncome THEN inc[i].money
                           ELSE Abs(inc[i].money)], Len(inc))
        expense == SumTo([i \in 1..Len(exp) |-> Abs(exp[i].money)], Len(exp))
        investment == SumTo([i \in 1..Len(inv) |-> Abs(inv[i].money)], Len(inv))
    IN /\ r.totalIncome = income
       /\ r.totalSpending = expense
       /\ r.netChange = (income - expense) - investment
       /\ ledger = <<A_Coles, A_Salary>> =>
            r.totalIncome = 250000 /\ r.totalSpending = 2300 /\ r.netChange = 247700

C11_Witness ==
  /\ ledger = <<A_Coles, A_Salary>>
  /\ analysis.result # <<>>
  /\ analysis.result[1].netChange = 247700

\* C12: for every non-empty transaction set and every current balance B the
\* balance input accepts (B >= 0, B = 0 included), the last point of
\* calculateBalanceAwareTrendData(transactions, B) has cumulative = B.
C12_LastPointIsBalance ==
  (analysis.balanceTrend # <<>> /\ balance # <<>> /\ ledger # <<>>) =>
    LET trendData == analysis.balanceTrend[1]
    IN /\ trendData # <<>>
       /\ trendData[Len(trendData)].cumulative = balance[1]

\* C13: for every non-empty transaction set with signed net change D and
\* current balance B, the first point of calculateBalanceAwareTrendData has
\* cumulative = B - D, the reconstructed starting balance.
C13_FirstPointIsStartingBalance ==
  (analysis.balanceTrend # <<>> /\ balance # <<>> /\ ledger # <<>>) =>
    LET trendData == analysis.balanceTrend[1]
        D == SumTo([i \in 1..Len(ledger) |-> ledger[i].money], Len(ledger))
    IN /\ trendData # <<>>
       /\ trendData[1].cumulative = balance[1] - D

\* C14: calculateTrend returns a well-defined slope for every input: 0 for a
\* set of size 0 or 1, and for size n >= 2 the regression denominator
\* n*sum(x^2) - (sum x)^2 over x = 0..n-1 is non-zero.
C14_TrendWellDefined ==
  analysis.trend # <<>> =>
    LET slope == analysis.trend[1]
        n == Len(ledger)
        sumX == (n * (n - 1)) \div 2
        sumXX == ((n - 1) * n * (2 * n - 1)) \div 6
    IN /\ slope.den # 0
       /\ n < 2 => slope.num = 0
       /\ n >= 2 => slope.den = n * sumXX - sumX * sumX

C14_Witness ==
  /\ Len(ledger) >= 2
  /\ analysis.trend # <<>>
  /\ analysis.trend[1].num # 0

\* C15: with no expense-view transaction (empty set, income only, outflows all
\* Investment or Income Offset) calculateSpendingAnalysis returns the six
\* statistics all equal to 0; with at least one expense the day-span divisor
\* is >= 1, so no statistic results from a division by zero.
C15_SpendingStatisticsDefined ==
  analysis.spending # <<>> =>
    LET s == analysis.spending[1]
        all == {s.dailyAverage, s.weeklyAverage, s.monthlyAverage,
                s.yearlyAverage, s.variance, s.standardDeviation}
        expenses == {i \in 1..Len(ledger) :
                       /\ ~ledger[i].isIncome
                       /\ ledger[i].category \notin {"Investment", "Income Offset"}}
    IN /\ expenses = {} => \A x \in all : IsZero(x)
       /\ expenses # {} => s.dailyAverage.den >= 1
       /\ \A x \in all : x.den # 0

C15_Witness ==
  /\ ledger = <<A_Salary, A_Invest, A_Offset>>
  /\ analysis.spending # <<>>
  /\ analysis.spending[1].variance = Zero

\* C16: with period 'custom' and a custom range whose start and end are both
\* present, the time-window filter returns exactly the transactions whose
\* date d satisfies start <= d <= end (end inclusive), in input order.
C16_CustomRangeFilters ==
  (/\ filtered # <<>>
   /\ period = "custom"
   /\ customRange.startDate # <<>>
   /\ customRange.endDate # <<>>) =>
    filtered[1] = SelectSeq(listed, LAMBDA t :
                    /\ customRange.startDate[1] <= t.date
                    /\ t.date <= customRange.endDate[1])

\* C17: for the periods 'day', 'week', 'month' and 'year' and every UTC offset
\* of the runtime, filterTransactionsByPeriod includes a transaction iff its
\* date d satisfies windowStart <= d <= today, windowStart being today, the
\* Monday of the current week, the 1st of the current month or 1 January of
\* the current year; a transaction dated today is included by 'day'.
C17_WindowByCalendarDate ==
  (filtered # <<>> /\ period \in {"day", "week", "month", "year"}) =>
    LET today == LocalDay(now, tz)
        monday == CHOOSE d \in (today - 6)..today : getDay(d) = 1
        windowStart ==
          CASE period = "day" -> today
            [] period = "week" -> monday
            [] period = "month" -> DayNumber(getFullYear(today), getMonth(today), 1)
            [] period = "year" -> DayNumber(getFullYear(today), 0, 1)
    IN filtered[1] = SelectSeq(listed, LAMBDA t :
                       windowStart <= t.date /\ t.date <= today)

\* C18: a combine-mode import (CSV upload or backup restore) yields the union
\* by id with existing entries winning: the transactions present before are
\* all present afterwards, unchanged and in the same order, followed by the
\* incoming transactions whose id was not present, in their order; an
\* incoming transaction whose id was present is skipped.
C18_CombineIsUnionExistingWins ==
  LET Union(before, incoming) ==
        before \o SelectSeq(incoming, LAMBDA t :
                              \A i \in 1..Len(before) : before[i].id # t.id)
  IN /\ \A file \in Files :
          LET result == parseCSV(file, tz, parserSource,
                                 FreshDraws(UsedIds("combine"), Len(file), 1))
              outcome == UploadOutcome(result, "combine", transactions, error)
          IN (/\ result.ok
              /\ parserSource = "random" =>
                   Cardinality(UnusedDraws(UsedIds("combine"))) >= Len(file))
               => outcome.transactions = Union(transactions, result.value)
     /\ \A backupData \in BackupFiles :
          RestoredTransactions(backupData, "combine", transactions)
            = Union(transactions, backupData.transactions)

C18_Witness ==
  /\ uploadMode = "combine"
  /\ error = Err("No new transactions found. All transactions already exist.")
  /\ \E i \in 1..Len(transactions) : transactions[i].category = "Investment"

\* C19: for every valid calendar date given as DD/MM/YYYY (day first, days
\* above 12 included) and every UTC offset of the runtime, the parser's date
\* normalization returns the date with the same year, month and day.
C19_DayFirstDatePreserved ==
  \A i \in 1..Len(parses) :
    parses[i].ok =>
      \A k \in 1..Len(csvContent) :
        LET cell == csvContent[k].date
            valid == /\ cell[2] \in 1..12
                     /\ cell[1] >= 1
                     /\ cell[1] <= (IF cell[2] = 12 THEN 365 ELSE DaysBeforeMonth[cell[2] + 1])
                                     - DaysBeforeMonth[cell[2]]
        IN valid =>
             /\ getFullYear(parses[i].value[k].date) = cell[3]
             /\ getMonth(parses[i].value[k].date) = cell[2] - 1
             /\ getDate(parses[i].value[k].date) = cell[1]

\* C20: a row whose date field has the DD/MM/YYYY shape but denotes no valid
\* calendar date (day 0 or beyond the month's length, month 0 or above 12)
\* makes parseCSV reject the whole batch with a row-indexed 'Invalid date'
\* error; it is never normalized to some other date.
C20_InvalidCalendarDateRejected ==
  \A i \in 1..Len(parses) :
    LET invalid == {k \in 1..Len(csvContent) :
                      LET cell == csvContent[k].date
                      IN \/ cell[2] \notin 1..12
                         \/ cell[1] < 1
                         \/ cell[1] > (IF cell[2] = 12 THEN 365 ELSE DaysBeforeMonth[cell[2] + 1])
                                        - DaysBeforeMonth[cell[2]]}
    IN invalid # {} =>
         /\ ~parses[i].ok
         /\ parses[i].message = "Invalid date format"
         /\ parses[i].row = CHOOSE k \in invalid : \A m \in invalid : k <= m

\* C21: over any sequence of combine-mode CSV uploads, combine-mode backup
\* restores, category edits and suggestion applications, the set of
\* transaction ids in the application state never loses an element.
C21_IdsNeverLost == [][Ids(transactions) \subseteq Ids(transactions')]_vars


\* Calendar day of a secondary record's DD/MM/YYYY date
CalendarDay(paypalTx) == DayNumber(paypalTx.date[3], paypalTx.date[2] - 1, paypalTx.date[1])

\* C22: the amount criterion fires exactly when the bank transaction's signed
\* amount and the secondary record's signed total differ by at most 1 cent in
\* absolute value; equal magnitudes of opposite sign get no amount bonus.
C22_AmountCriterionSigned ==
  matchOutput # <<>> =>
    \A i \in 1..Len(bankList), j \in 1..Len(secondaryList) :
       AmountWithinEpsilon(bankList[i].money, secondaryList[j].total)
         <=> Abs(bankList[i].money - secondaryList[j].total) <= 1

\* C23: the date criterion fires exactly when the bank date and the secondary
\* record's calendar date are at most 3 days apart, whichever is earlier and
\* whatever the local UTC offset.
C23_DateCriterionCalendar ==
  matchOutput # <<>> =>
    \A i \in 1..Len(bankList), j \in 1..Len(secondaryList) :
       DaysDiffWithin(bankList[i], secondaryList[j], tz, 3)
         <=> Abs(bankList[i].date - CalendarDay(secondaryList[j])) <= 3

\* C24: in every returned match the reason names 'Same day transaction'
\* exactly when the two dates are the same calendar day, and 'Within 3 days'
\* exactly when they are 1 to 3 calendar days apart.
C24_ReasonNamesDate ==
  matchOutput # <<>> =>
    \A k \in 1..Len(matchOutput[1]) :
       LET match == matchOutput[1][k]
           apart == Abs(match.bankTransaction.date - CalendarDay(match.paypalTransaction))
       IN /\ "Same day transaction" \in Range(match.reason) <=> apart = 0
          /\ "Within 3 days" \in Range(match.reason) <=> apart \in 1..3

\* C25: after 'Apply All Matches' every applied match is reflected in the
\* store: the stored transaction with the match's bank id carries the match's
\* processor transaction id and its annotation, also when several matches
\* name the same bank transaction.
C25_ApplyAllReflectsEveryMatch ==
  [][~ApplyAllPayPalData \/
     \A k \in 1..Len(matches) :
        \E i \in 1..Len(transactions') :
           /\ transactions'[i].id = matches[k].bankTransaction.id
           /\ transactions'[i].paypalData # <<>>
           /\ transactions'[i].paypalData[1].transactionId
                = matches[k].paypalTransaction.transactionId
           /\ transactions'[i].description = updatedTransaction(matches[k]).description]_vars

C27_StartLoadsWhatWasInMemory ==
  [][~(isInitialized /\ AppStart) \/ transactions' = transactions]_vars

\* C28: a balance or salary accepted by the input form (any value >= 0) is
\* returned unchanged by storage.loadData after the storage.saveData that
\* follows its submission.
C28_BalanceAndSalarySurvive ==
  [][(~(\E currentBalance \in PersistBalances : SubmitBalance(currentBalance))
      /\ ~(\E salary \in PersistSalaries : SubmitSalary(salary)))
     \/ (/\ loadData(persisted') # <<>>
         /\ loadData(persisted')[1].currentBalance = balance'
         /\ loadData(persisted')[1].yearlySalary = yearlySalary')]_vars

\* C29: once the progress callback has signalled the cancellation of a run,
\* categorizeBatch sends no further request to the LLM service in that run.
C29_NoRequestAfterCancellation ==
  [][ai.signalled => ai'.requests = ai.requests]_vars

\* The orders of a transaction list
Orders(txs) ==
  {[i \in 1..Len(txs) |-> txs[p[i]]] :
     p \in {q \in [1..Len(txs) -> 1..Len(txs)] : \A i, j \in 1..Len(txs) : q[i] = q[j] => i = j}}

====
